---- MODULE Spec2Model ----
(***************************************************************************)
(* SteepestDescent.solve (moola/algorithms/steepest_descent.py) as a state *)
(* machine.  Iterates are one-dimensional integer vectors living in a heap *)
(* of objects, so that cloning and aliasing are visible.  Optional values  *)
(* (Python None) are sequences: <<>> is None, <<v>> is the value v.        *)
(* Step lengths are counted in quarters: a stands for alpha = a / 4.       *)
(***************************************************************************)
EXTENDS Integers, Sequences, FiniteSets, TLC

VARIABLES
    self,       \* the solver's configuration, set by __init__
    gradSign,   \* the objective: 1 a correct gradient evaluator, -1 an inverted one
    lsDet,      \* the line search is a deterministic function of its input
    lsMemo,     \* what the deterministic line search answered, per input
    x0,         \* value of the caller's iterate when solve was first called
    arg,        \* the object the caller passed to this call of solve
    heap,       \* object id -> value of the iterate object
    m,          \* solve's local m (a reference)
    m_prev,     \* solve's local m_prev (a reference)
    j,          \* solve's local j
    j_prev,     \* solve's local j_prev
    grad,       \* solve's local grad (the value of the gradient object)
    gradAt,     \* value of the iterate at which grad was evaluated
    it,         \* solve's local it
    alpha,      \* step length returned by the line search, in quarters
    pc,         \* position of solve
    err,        \* the exception solve raised
    sol,        \* the Solution solve returned
    msg,        \* the termination message printed
    log,        \* calls of the hooks and of the callback, in order
    lsCalls,    \* calls of self.ls.search
    lsDone,     \* calls of self.ls.search that returned a step length
    objEvals,   \* calls of obj(...)
    trials,     \* phi / phi_dphi evaluations of the running line search
    run,        \* which call of solve this is
    out1        \* outcome of the first call of solve

vars == <<self, gradSign, lsDet, lsMemo, x0, arg, heap, m, m_prev, j, j_prev,
          grad, gradAt, it, alpha, pc, err, sol, msg, log, lsCalls, lsDone,
          objEvals, trials, run, out1>>

\* ---------------------------------------------------------------- bounds
MaxIt == 3          \* iterations explored when nothing else stops the loop
MaxTrials == 1      \* trial evaluations explored per line search

\* ------------------------------------------------------ optional values
None == <<>>
Some(v) == <<v>>
Abs(x) == IF x < 0 THEN -x ELSE x

\* --------------------------------------------------------------- inputs
Alphas == {1, 2, 4}
X0s == {-2, 0, 1, 4}
Tols == {None, Some(-1), Some(0), Some(1), Some(12)}
Gtols == {None, Some(-1), Some(0), Some(4)}
Maxiters == {None} \cup {Some(k) : k \in (-1)..MaxIt}
HookNames == {"before_iteration", "after_iteration"}

\* ------------------------------------------------- the objective (external)
\* f(x) = x^2, whose gradient is 2x; an inverted evaluator returns -2x.
Obj(x) == x * x
Deriv(x) == 2 * x
Gradient(x) == gradSign * Deriv(x)

\* --------------------------------------------------- the iterate (external)
Norm(g) == Abs(g)
Inner(g, h) == g * h

\* smallest object id not in use
Fresh(h) == CHOOSE i \in 0..Cardinality(DOMAIN h) :
               i \notin DOMAIN h /\ \A k \in 0..(i - 1) : k \in DOMAIN h

\* no copy is made: the "clone" is the object itself
CloneAlias(h, r) == [ref |-> r, heap |-> h]

\* m.__class__(m): a new object with the value of r
Clone(h, r) == [ref |-> Fresh(h), heap |-> h @@ (Fresh(h) :> h[r])]

\* r.axpy(a / 4, g), in place
Axpy(h, r, a, g) == [h EXCEPT ![r] = h[r] + (a * g) \div 4]

\* the step a / 4 along g stays on the integer lattice
OnLattice(a, g) == (a * g) % 4 = 0

RefSet(o) == IF o = None THEN {} ELSE {o[1]}

\* objects that are still referenced are kept, the others are freed
Gc(h, roots) == [r \in (roots \cap DOMAIN h) |-> h[r]]

\* phi with tmpm = m_prev: the step is applied to m_prev itself
PhiInPlace(h, mp, g, a) ==
    LET h2 == Axpy(h, mp, -a, g)
    IN [val |-> Obj(h2[mp]), heap |-> h2]

\* phi(alpha): the value and the heap it leaves (tmpm is dropped on return)
Phi(h, mp, g, a) ==
    LET c == Clone(h, mp)
        h2 == Axpy(c.heap, c.ref, -a, g)
    IN [val |-> Obj(h2[c.ref]), heap |-> [r \in DOMAIN h |-> h2[r]]]

\* --------------------------------------------------- convergence test
\* Line 78 as Python 2 evaluates it: the `or` chain yields True (the integer 1)
\* when a disjunct holds and abs(j - j_prev) otherwise, and that value is
\* compared with tol; anything is greater than None.
TolOperand(tol, jj, jp) ==
    IF tol = None \/ jj = None \/ jp = None THEN 1 ELSE Abs(jj[1] - jp[1])

\* the gradient test with >= in place of >
GtolContinueInclusive(gtol, g) == gtol = None \/ Norm(g) >= gtol[1]

\* the functional-change test with >= in place of >
TolContinueInclusive(tol, jj, jp) == tol = None \/ TolOperand(tol, jj, jp) >= tol[1]

GtolContinue(gtol, g) == gtol = None \/ Norm(g) > gtol[1]
TolContinue(tol, jj, jp) == tol = None \/ TolOperand(tol, jj, jp) > tol[1]
\* the budget test off by one: it <= maxiter
MaxiterContinueInclusive(maxiter, i) == maxiter = None \/ i <= maxiter[1]

MaxiterContinue(maxiter, i) == maxiter = None \/ i < maxiter[1]

NotConverged(cfg, g, jj, jp, i) ==
    /\ GtolContinue(cfg.gtol, g)
    /\ TolContinue(cfg.tol, jj, jp)
    /\ MaxiterContinue(cfg.maxiter, i)

\* Line 125 compares the builtin function iter with maxiter; in Python 2 a
\* number is smaller than any object of another type, so iter <= maxiter is False.
IterLeq(maxiter) == FALSE

Reason(cfg, g, jj, jp) ==
    IF ~cfg.disp THEN "none"
    ELSE IF cfg.maxiter # None /\ IterLeq(cfg.maxiter) THEN "maxiter"
    ELSE IF cfg.gtol # None /\ Norm(g) <= cfg.gtol[1] THEN "gtol"
    ELSE IF cfg.tol # None /\ jp # None /\ Abs(jj[1] - jp[1]) <= cfg.tol[1] THEN "tol"
    ELSE "none"

\* ------------------------------------------------------------ states
\* every combination of the stopping criteria with everything registered, and
\* every combination of display, callback and hooks with some of the criteria
Configs ==
    [tol : Tols, gtol : Gtols, maxiter : Maxiters, disp : {TRUE},
     callback : {TRUE}, hooks : {HookNames}]
    \cup
    [tol : {None, Some(0)}, gtol : {None}, maxiter : {Some(0), Some(MaxIt)},
     disp : BOOLEAN, callback : BOOLEAN, hooks : SUBSET HookNames]

\* the caller keeps its iterates and the Solution of the first call
Roots(mm, mp) == {0, arg} \cup RefSet(mm) \cup RefSet(mp) \cup
    (IF out1 # None /\ out1[1].sol # None THEN {out1[1].sol[1].Optimizer} ELSE {})

InitLocals ==
    /\ lsMemo = {}
    /\ arg = 0
    /\ heap = (0 :> x0)
    /\ m = Some(0)
    /\ m_prev = None
    /\ j = None
    /\ j_prev = None
    /\ grad = None
    /\ gradAt = None
    /\ it = 0
    /\ alpha = None
    /\ pc = "start"
    /\ err = None
    /\ sol = None
    /\ msg = None
    /\ log = <<>>
    /\ lsCalls = 0
    /\ lsDone = 0
    /\ objEvals = 0
    /\ trials = 0
    /\ run = 1
    /\ out1 = None

Init ==
    /\ self \in Configs
    /\ gradSign \in {1, -1}
    /\ lsDet = FALSE
    /\ x0 \in X0s
    /\ InitLocals

config == <<self, gradSign, lsDet, x0, arg, run, out1>>
counters == <<lsCalls, lsDone, objEvals, trials>>

\* solve as it would be with the counter kept on the solver: it is not reset
SolveKeepIt ==
    /\ pc = "start"
    /\ LET c == Clone(heap, m[1]) IN
         /\ m_prev' = Some(c.ref)
         /\ heap' = Gc(c.heap, Roots(m, Some(c.ref)))
    /\ j' = None
    /\ j_prev' = None
    /\ pc' = "eval"
    /\ UNCHANGED <<config, counters, lsMemo, m, grad, gradAt, it, alpha, err, sol,
                   msg, log>>

\* lines 54-61
Solve ==
    /\ pc = "start"
    /\ LET c == Clone(heap, m[1]) IN
         /\ m_prev' = Some(c.ref)
         /\ heap' = Gc(c.heap, Roots(m, Some(c.ref)))
    /\ j' = None
    /\ j_prev' = None
    /\ it' = 0
    /\ pc' = "eval"
    /\ UNCHANGED <<config, counters, lsMemo, m, grad, gradAt, alpha, err, sol, msg, log>>

\* lines 64-67 without the test of line 65: the objective is evaluated at m on
\* every pass
EvaluateAlways ==
    /\ pc = "eval"
    /\ j' = Some(Obj(heap[m[1]]))
    /\ objEvals' = objEvals + 1
    /\ grad' = Some(Gradient(heap[m[1]]))
    /\ gradAt' = Some(heap[m[1]])
    /\ pc' = "before"
    /\ UNCHANGED <<config, lsMemo, heap, m, m_prev, j_prev, it, alpha, err, sol,
                   msg, log, lsCalls, lsDone, trials>>

\* lines 64-67
Evaluate ==
    /\ pc = "eval"
    /\ IF j = None
         THEN j' = Some(Obj(heap[m[1]])) /\ objEvals' = objEvals + 1
         ELSE UNCHANGED <<j, objEvals>>
    /\ grad' = Some(Gradient(heap[m[1]]))
    /\ gradAt' = Some(heap[m[1]])
    /\ pc' = "before"
    /\ UNCHANGED <<config, lsMemo, heap, m, m_prev, j_prev, it, alpha, err, sol,
                   msg, log, lsCalls, lsDone, trials>>

\* lines 70-71
BeforeIteration ==
    /\ pc = "before"
    /\ log' = IF "before_iteration" \in self.hooks
                THEN Append(log, <<"before_iteration", j[1], grad[1]>>)
                ELSE log
    /\ pc' = "check"
    /\ UNCHANGED <<config, counters, lsMemo, heap, m, m_prev, j, j_prev, grad,
                   gradAt, it, alpha, err, sol, msg>>

\* lines 76-80
CheckConvergence ==
    /\ pc = "check"
    /\ pc' = IF NotConverged(self, grad[1], j, j_prev, it) THEN "slope" ELSE "report"
    /\ UNCHANGED <<config, counters, lsMemo, heap, m, m_prev, j, j_prev, grad,
                   gradAt, it, alpha, err, sol, msg, log>>

\* the slope without its sign: inner(grad, grad)
DjsUnsigned(g) == Inner(g, g)

\* line 83
Djs(g) == -Inner(g, g)

\* the direction check with djs > 0 in place of djs >= 0
CheckDirectionStrict ==
    /\ pc = "slope"
    /\ IF Djs(grad[1]) > 0
         THEN pc' = "raised" /\ err' = Some("RuntimeError")
         ELSE pc' = "search" /\ err' = err
    /\ UNCHANGED <<config, counters, lsMemo, heap, m, m_prev, j, j_prev, grad,
                   gradAt, it, alpha, sol, msg, log>>

\* lines 82-86
CheckDirection ==
    /\ pc = "slope"
    /\ IF Djs(grad[1]) >= 0
         THEN pc' = "raised" /\ err' = Some("RuntimeError")
         ELSE pc' = "search" /\ err' = err
    /\ UNCHANGED <<config, counters, lsMemo, heap, m, m_prev, j, j_prev, grad,
                   gradAt, it, alpha, sol, msg, log>>

\* line 103: self.ls.search is entered
Search ==
    /\ pc = "search"
    /\ it < MaxIt
    /\ lsCalls' = lsCalls + 1
    /\ trials' = 0
    /\ pc' = "ls"
    /\ UNCHANGED <<config, lsMemo, heap, m, m_prev, j, j_prev, grad, gradAt, it,
                   alpha, err, sol, msg, log, lsDone, objEvals>>

\* lines 95-101: phi_dphi(alpha), the value and the heap it leaves
PhiDphi(h, mp, g, a) ==
    LET c == Clone(h, mp)
        h2 == Axpy(c.heap, c.ref, -a, g)
        p == Phi(h2, mp, g, a)
    IN [val |-> p.val,
        djs |-> -(Deriv(p.heap[c.ref]) * g),
        heap |-> [r \in DOMAIN h |-> p.heap[r]]]

\* A deterministic line search answers the same input the same way; the number
\* of trial evaluations it makes is a fixed function of its input as well.
LsSeen == {e \in lsMemo : e.x = heap[m_prev[1]] /\ e.g = grad[1]}

LsTrialsOf(x) == Abs(x) % (MaxTrials + 1)

LsMayTry == lsDet => trials < LsTrialsOf(heap[m_prev[1]])

LsAllowed(out) ==
    lsDet => /\ trials = LsTrialsOf(heap[m_prev[1]])
             /\ \A e \in LsSeen : e.out = out

LsRemember(out) ==
    IF lsDet THEN lsMemo \cup {[x |-> heap[m_prev[1]], g |-> grad[1], out |-> out]}
    ELSE lsMemo

\* lines 89-93: the line search evaluates phi at a trial step
LsPhi ==
    /\ pc = "ls"
    /\ trials < MaxTrials
    /\ LsMayTry
    /\ \E a \in Alphas :
         /\ OnLattice(a, grad[1])
         /\ heap' = Gc(Phi(heap, m_prev[1], grad[1], a).heap, Roots(m, m_prev))
    /\ objEvals' = objEvals + 1
    /\ trials' = trials + 1
    /\ UNCHANGED <<config, lsMemo, m, m_prev, j, j_prev, grad, gradAt, it, alpha,
                   pc, err, sol, msg, log, lsCalls, lsDone>>

\* lines 95-101: the line search evaluates phi_dphi at a trial step
LsPhiDphi ==
    /\ pc = "ls"
    /\ trials < MaxTrials
    /\ LsMayTry
    /\ \E a \in Alphas :
         /\ OnLattice(a, grad[1])
         /\ heap' = Gc(PhiDphi(heap, m_prev[1], grad[1], a).heap, Roots(m, m_prev))
    /\ objEvals' = objEvals + 1
    /\ trials' = trials + 1
    /\ UNCHANGED <<config, lsMemo, m, m_prev, j, j_prev, grad, gradAt, it, alpha,
                   pc, err, sol, msg, log, lsCalls, lsDone>>

\* line 103: self.ls.search returns a step length
LsReturn ==
    /\ pc = "ls"
    /\ \E a \in Alphas :
         /\ OnLattice(a, grad[1])
         /\ LsAllowed(Some(a))
         /\ lsMemo' = LsRemember(Some(a))
         /\ alpha' = Some(a)
    /\ lsDone' = lsDone + 1
    /\ pc' = "commit"
    /\ UNCHANGED <<config, heap, m, m_prev, j, j_prev, grad, gradAt, it, err, sol,
                   msg, log, lsCalls, objEvals, trials>>

\* a failed line search is tried again instead of propagating
LsFailRetry ==
    /\ pc = "ls"
    /\ LsAllowed(None)
    /\ lsMemo' = LsRemember(None)
    /\ pc' = "search"
    /\ UNCHANGED <<config, counters, heap, m, m_prev, j, j_prev, grad, gradAt, it,
                   alpha, err, sol, msg, log>>

\* line 103: self.ls.search raises
LsFail ==
    /\ pc = "ls"
    /\ LsAllowed(None)
    /\ lsMemo' = LsRemember(None)
    /\ err' = Some("LineSearchError")
    /\ pc' = "raised"
    /\ UNCHANGED <<config, counters, heap, m, m_prev, j, j_prev, grad, gradAt, it,
                   alpha, sol, msg, log>>

\* the commit step with line 108 after line 111: j_new is phi(alpha) taken from
\* the updated m_prev
CommitLateValue ==
    /\ pc = "commit"
    /\ LET c1 == Clone(heap, m_prev[1])
           h1 == Axpy(c1.heap, c1.ref, -alpha[1], grad[1])
           c2 == Clone(h1, c1.ref)
           p == Phi(c2.heap, c2.ref, grad[1], alpha[1])
       IN /\ m' = Some(c1.ref)
          /\ m_prev' = Some(c2.ref)
          /\ heap' = Gc(p.heap, Roots(Some(c1.ref), Some(c2.ref)))
          /\ j_prev' = j
          /\ j' = Some(p.val)
    /\ it' = it + 1
    /\ objEvals' = objEvals + 1
    /\ pc' = "callback"
    /\ UNCHANGED <<config, lsMemo, grad, gradAt, alpha, err, sol, msg, log,
                   lsCalls, lsDone, trials>>

\* the commit step updating m in place, without the copy of line 106
CommitInPlace ==
    /\ pc = "commit"
    /\ LET h1 == Axpy(heap, m[1], -alpha[1], grad[1])
           p == Phi(h1, m_prev[1], grad[1], alpha[1])
           c2 == Clone(p.heap, m[1])
       IN /\ m' = m
          /\ m_prev' = Some(c2.ref)
          /\ heap' = Gc(c2.heap, Roots(m, Some(c2.ref)))
          /\ j_prev' = j
          /\ j' = Some(p.val)
    /\ it' = it + 1
    /\ objEvals' = objEvals + 1
    /\ pc' = "callback"
    /\ UNCHANGED <<config, lsMemo, grad, gradAt, alpha, err, sol, msg, log,
                   lsCalls, lsDone, trials>>

\* the commit step without line 114: it is not counted
CommitUncounted ==
    /\ pc = "commit"
    /\ LET c1 == Clone(heap, m_prev[1])
           h1 == Axpy(c1.heap, c1.ref, -alpha[1], grad[1])
           p == Phi(h1, m_prev[1], grad[1], alpha[1])
           c2 == Clone(p.heap, c1.ref)
       IN /\ m' = Some(c1.ref)
          /\ m_prev' = Some(c2.ref)
          /\ heap' = Gc(c2.heap, Roots(Some(c1.ref), Some(c2.ref)))
          /\ j_prev' = j
          /\ j' = Some(p.val)
    /\ objEvals' = objEvals + 1
    /\ pc' = "callback"
    /\ UNCHANGED <<config, lsMemo, grad, gradAt, it, alpha, err, sol, msg, log,
                   lsCalls, lsDone, trials>>

\* lines 105-114
Commit ==
    /\ pc = "commit"
    /\ LET c1 == Clone(heap, m_prev[1])
           h1 == Axpy(c1.heap, c1.ref, -alpha[1], grad[1])
           p == Phi(h1, m_prev[1], grad[1], alpha[1])
           c2 == Clone(p.heap, c1.ref)
       IN /\ m' = Some(c1.ref)
          /\ m_prev' = Some(c2.ref)
          /\ heap' = Gc(c2.heap, Roots(Some(c1.ref), Some(c2.ref)))
          /\ j_prev' = j
          /\ j' = Some(p.val)
    /\ it' = it + 1
    /\ objEvals' = objEvals + 1
    /\ pc' = "callback"
    /\ UNCHANGED <<config, lsMemo, grad, gradAt, alpha, err, sol, msg, log,
                   lsCalls, lsDone, trials>>

\* lines 116-117
Callback ==
    /\ pc = "callback"
    /\ log' = IF self.callback
                THEN Append(log, <<"callback", j[1], -grad[1], heap[m[1]]>>)
                ELSE log
    /\ pc' = "after"
    /\ UNCHANGED <<config, counters, lsMemo, heap, m, m_prev, j, j_prev, grad,
                   gradAt, it, alpha, err, sol, msg>>

\* after_iteration given the gradient at the updated iterate
AfterIterationFreshGrad ==
    /\ pc = "after"
    /\ log' = IF "after_iteration" \in self.hooks
                THEN Append(log, <<"after_iteration", j[1], Gradient(heap[m[1]])>>)
                ELSE log
    /\ pc' = "eval"
    /\ UNCHANGED <<config, counters, lsMemo, heap, m, m_prev, j, j_prev, grad,
                   gradAt, it, alpha, err, sol, msg>>

\* lines 119-120
AfterIteration ==
    /\ pc = "after"
    /\ log' = IF "after_iteration" \in self.hooks
                THEN Append(log, <<"after_iteration", j[1], grad[1]>>)
                ELSE log
    /\ pc' = "eval"
    /\ UNCHANGED <<config, counters, lsMemo, heap, m, m_prev, j, j_prev, grad,
                   gradAt, it, alpha, err, sol, msg>>

\* lines 122-130
Report ==
    /\ pc = "report"
    /\ msg' = Some(Reason(self, grad[1], j, j_prev))
    /\ pc' = "return"
    /\ UNCHANGED <<config, counters, lsMemo, heap, m, m_prev, j, j_prev, grad,
                   gradAt, it, alpha, err, sol, log>>

\* lines 132-134
Return ==
    /\ pc = "return"
    /\ sol' = Some([Optimizer |-> m[1], its |-> it])
    /\ pc' = "done"
    /\ UNCHANGED <<config, counters, lsMemo, heap, m, m_prev, j, j_prev, grad,
                   gradAt, it, alpha, err, msg, log>>

Next ==
    \/ Solve
    \/ Evaluate
    \/ BeforeIteration
    \/ CheckConvergence
    \/ CheckDirection
    \/ Search
    \/ LsPhi
    \/ LsPhiDphi
    \/ LsReturn
    \/ LsFail
    \/ Commit
    \/ Callback
    \/ AfterIteration
    \/ Report
    \/ Return

Spec == Init /\ [][Next]_vars

\* ------------------------------------------- solve called a second time
\* The caller calls solve again on the same solver, with the same object if it
\* still has its value, or with another object of that value.  The finished
\* call's locals are dead until lines 54-61 bind them again.
SolveAgain ==
    /\ pc \in {"done", "raised"}
    /\ run = 1
    /\ run' = 2
    /\ out1' = Some([sol |-> sol, err |-> err])
    /\ \E same \in BOOLEAN :
         LET kept == {0} \cup (IF sol # None THEN {sol[1].Optimizer} ELSE {})
         IN IF same
              THEN /\ heap[arg] = x0
                   /\ arg' = arg
                   /\ heap' = Gc(heap, kept \cup {arg} \cup RefSet(m_prev))
              ELSE /\ arg' = Fresh(heap)
                   /\ heap' = Gc(heap @@ (Fresh(heap) :> x0),
                                 kept \cup {Fresh(heap)} \cup RefSet(m_prev))
    /\ m' = Some(arg')
    /\ pc' = "start"
    /\ err' = None
    /\ sol' = None
    /\ msg' = None
    /\ log' = <<>>
    /\ lsCalls' = 0
    /\ lsDone' = 0
    /\ objEvals' = 0
    /\ trials' = 0
    /\ UNCHANGED <<self, gradSign, lsDet, x0, lsMemo, m_prev, j, j_prev, grad,
                   gradAt, it, alpha>>

InitDet ==
    /\ self \in Configs
    /\ gradSign \in {1, -1}
    /\ lsDet = TRUE
    /\ x0 \in X0s
    /\ InitLocals

NextDet == Next \/ SolveAgain

SpecDet == InitDet /\ [][NextDet]_vars

\* ------------------------- a line search that only accepts descent steps
\* The objective is f(x) = x^2 with its gradient 2x; the line search looks at
\* steps up to alpha = 2 and returns one only if phi(alpha) <= phi(0).
AlphasWide == Alphas \cup {8}

LsReturnDescent ==
    /\ pc = "ls"
    /\ \E a \in AlphasWide :
         /\ OnLattice(a, grad[1])
         /\ Phi(heap, m_prev[1], grad[1], a).val <= Phi(heap, m_prev[1], grad[1], 0).val
         /\ alpha' = Some(a)
    /\ lsDone' = lsDone + 1
    /\ pc' = "commit"
    /\ UNCHANGED <<config, lsMemo, heap, m, m_prev, j, j_prev, grad, gradAt, it,
                   err, sol, msg, log, lsCalls, objEvals, trials>>

InitDescent ==
    /\ self \in Configs
    /\ gradSign = 1
    /\ lsDet = FALSE
    /\ x0 \in X0s
    /\ InitLocals

NextDescent ==
    \/ Solve
    \/ Evaluate
    \/ BeforeIteration
    \/ CheckConvergence
    \/ CheckDirection
    \/ Search
    \/ LsPhi
    \/ LsPhiDphi
    \/ LsReturnDescent
    \/ LsFail
    \/ Commit
    \/ Callback
    \/ AfterIteration
    \/ Report
    \/ Return

SpecDescent == InitDescent /\ [][NextDescent]_vars

\* ------------------------------------------------------------ properties
Terminal == pc \in {"done", "raised"}

\* number of calls of the hook or callback called name
Count(name) == Cardinality({i \in 1..Len(log) : log[i][1] = name})

IsHookCall(e) == e[1] \in HookNames
HookLog == SelectSeq(log, IsHookCall)

Registered(name) == name \in self.hooks

\* C1: with maxiter = 0 and tol and gtol None, solve never reaches the line
\* search and never raises, and the Solution it returns has 0 iterations and an
\* Optimizer equal by value to the initial iterate.
C1_ZeroBudgetReturnsInput ==
    (self.maxiter = Some(0) /\ self.tol = None /\ self.gtol = None) =>
        /\ lsCalls = 0
        /\ pc \notin {"slope", "search", "ls", "commit", "callback", "after", "raised"}
        /\ (pc = "done" => sol[1].its = 0 /\ heap[sol[1].Optimizer] = x0)

C1_Witness ==
    /\ self.maxiter = Some(0) /\ self.tol = None /\ self.gtol = None
    /\ pc = "done"
    /\ x0 # 0

\* C2: with an inverted gradient evaluator, a nonzero gradient and no stopping
\* criterion holding at the initial point, the line search is never called and
\* solve ends by raising.
C2_InvertedGradientRaises ==
    (/\ gradSign = -1
     /\ Deriv(x0) # 0
     /\ NotConverged(self, Gradient(x0), Some(Obj(x0)), None, 0)) =>
        /\ lsCalls = 0
        /\ (Terminal => pc = "raised" /\ it = 0)

\* C3: with both hooks registered, when solve returns a Solution the calls of
\* before_iteration and of after_iteration both number "Number of iterations"
\* and alternate before, after, before, after.
C3_HooksOncePerIteration ==
    (HookNames \subseteq self.hooks /\ pc = "done") =>
        /\ Count("before_iteration") = sol[1].its
        /\ Count("after_iteration") = sol[1].its
        /\ \A i \in 1..Len(HookLog) :
             HookLog[i][1] = (IF i % 2 = 1 THEN "before_iteration" ELSE "after_iteration")

\* C4: with tol, gtol and maxiter all None nothing of an iteration happens: no
\* objective evaluation, no hook or callback call, no line search.
C4_NoCriteriaRejected ==
    (self.tol = None /\ self.gtol = None /\ self.maxiter = None) =>
        objEvals = 0 /\ log = <<>> /\ lsCalls = 0

\* C5: the "Number of iterations" of a returned Solution is the number of line
\* searches that returned a step, and is at most maxiter when maxiter >= 0.
C5_IterationsCountSteps ==
    pc = "done" =>
        /\ sol[1].its = lsDone
        /\ (self.maxiter # None /\ self.maxiter[1] >= 0 => sol[1].its <= self.maxiter[1])

C5_Witness ==
    /\ pc = "done"
    /\ sol[1].its = 2
    /\ self.maxiter = Some(2)

\* C6: an iteration whose descent-direction check fails goes no further: the
\* line search is entered only with djs < 0, and when solve has raised the
\* direction error there is no Solution and the line search, the callback and
\* after_iteration were called in the completed iterations only.
C6_DirectionFailureAborts ==
    /\ pc \in {"search", "ls", "commit"} => Djs(grad[1]) < 0
    /\ (pc = "raised" /\ err = Some("RuntimeError")) =>
        /\ Djs(grad[1]) >= 0
        /\ sol = None
        /\ lsCalls = it
        /\ Count("callback") = (IF self.callback THEN it ELSE 0)
        /\ Count("after_iteration") = (IF Registered("after_iteration") THEN it ELSE 0)

C6_Witness ==
    /\ pc = "raised" /\ err = Some("RuntimeError")
    /\ it >= 1
    /\ self.callback /\ Registered("after_iteration")

\* C7: the line search is called at most once per iteration, and when it has
\* failed solve has raised with no Solution, the iterate, j and it as they were
\* at the start of the iteration, and no callback or after_iteration call for it.
C7_LineSearchFailurePropagates ==
    /\ lsCalls <= it + 1
    /\ (pc = "raised" /\ err = Some("LineSearchError")) =>
        /\ sol = None
        /\ lsCalls = it + 1
        /\ lsDone = it
        /\ heap[m[1]] = gradAt[1]
        /\ heap[m_prev[1]] = gradAt[1]
        /\ j = Some(Obj(gradAt[1]))
        /\ Count("callback") = (IF self.callback THEN it ELSE 0)
        /\ Count("after_iteration") = (IF Registered("after_iteration") THEN it ELSE 0)

C7_Witness ==
    /\ pc = "raised" /\ err = Some("LineSearchError")
    /\ it >= 1
    /\ trials >= 1
    /\ self.callback /\ Registered("after_iteration")

\* C8: when an iteration has completed, the callback and then after_iteration
\* have been called for it, with the objective value at the newly committed
\* iterate and the gradient evaluated at the start of that iteration (the
\* callback with its negation and the new iterate).
C8_AfterIterationArguments ==
    (pc = "eval" /\ it >= 1) =>
        LET n == Len(log)
            shift == IF Registered("after_iteration") THEN 1 ELSE 0
        IN /\ Registered("after_iteration") =>
                /\ Count("after_iteration") = it
                /\ log[n] = <<"after_iteration", Obj(heap[m[1]]), Gradient(gradAt[1])>>
           /\ self.callback =>
                /\ Count("callback") = it
                /\ log[n - shift] =
                     <<"callback", Obj(heap[m[1]]), -Gradient(gradAt[1]), heap[m[1]]>>

C8_Witness ==
    /\ pc = "eval" /\ it >= 2
    /\ self.callback /\ Registered("after_iteration")
    /\ Gradient(heap[m[1]]) # Gradient(gradAt[1])

\* C9: with a deterministic objective and line search, a second call of solve
\* with an initial iterate of the same value ends as the first did: the same
\* iteration count and a final iterate of the same value, or the same error.
C9_SecondCallIdentical ==
    (run = 2 /\ Terminal) =>
        /\ pc = "done" =>
             /\ out1[1].sol # None
             /\ sol[1].its = out1[1].sol[1].its
             /\ heap[sol[1].Optimizer] = heap[out1[1].sol[1].Optimizer]
        /\ pc = "raised" => out1[1].err = err

C9_Witness ==
    /\ run = 2 /\ pc = "done"
    /\ sol[1].its >= 2
    /\ sol[1].Optimizer # out1[1].sol[1].Optimizer
    /\ heap[sol[1].Optimizer] # x0

\* C10: the object the caller passed to solve keeps its value, whatever solve
\* has done so far.
C10_CallerIterateUnchanged == heap[arg] = x0

C10_Witness ==
    /\ pc = "done"
    /\ it >= 2
    /\ trials >= 1
    /\ heap[m[1]] # x0

\* C11: the Optimizer of a returned Solution is never the very object the
\* caller passed to solve.
C11_OptimizerNotCallerObject == pc = "done" => sol[1].Optimizer # arg

\* the values of j passed to after_iteration, in order
IsAfterCall(e) == e[1] = "after_iteration"
AfterLog == SelectSeq(log, IsAfterCall)

\* C12: for f(x) = x^2 and a line search that accepts only steps with
\* phi(alpha) <= phi(0), j never increases: after every committed step
\* j <= j_prev, and the values passed to after_iteration are non-increasing.
C12_ObjectiveNonIncreasing ==
    /\ j_prev # None => j[1] <= j_prev[1]
    /\ \A i \in 1..(Len(AfterLog) - 1) : AfterLog[i + 1][2] <= AfterLog[i][2]

C12_Witness ==
    /\ pc = "done"
    /\ Len(AfterLog) >= 3
    /\ AfterLog[2][2] < AfterLog[1][2]
    /\ AfterLog[3][2] = AfterLog[2][2]

\* C13: on the first pass (j_prev unset) the functional-change criterion never
\* stops the loop, whatever tol is: when the gradient and budget criteria let
\* the loop continue, the loop is not left.
C13_FirstPassIgnoresTol ==
    (pc = "report" /\ j_prev = None) =>
        ~(GtolContinue(self.gtol, grad[1]) /\ MaxiterContinue(self.maxiter, it))

\* how the loop was left
StoppedByBudget == ~MaxiterContinue(self.maxiter, it)
StoppedByGtol == self.gtol # None /\ Norm(grad[1]) <= self.gtol[1]
StoppedByTol ==
    self.tol # None /\ j_prev # None /\ Abs(j[1] - j_prev[1]) <= self.tol[1]

\* C14: with display enabled every exit of the loop reports one of the three
\* messages, and the one reported names a criterion that holds in the final
\* state; the budget message is reported when only the budget stopped the loop.
C14_MessageNamesCriterion ==
    (self.disp /\ msg # None) =>
        /\ msg[1] \in {"maxiter", "gtol", "tol"}
        /\ msg[1] = "maxiter" => StoppedByBudget
        /\ msg[1] = "gtol" => StoppedByGtol
        /\ msg[1] = "tol" => StoppedByTol
        /\ (StoppedByBudget /\ ~StoppedByGtol /\ ~StoppedByTol) => msg[1] = "maxiter"

C17_IterateCommittedOnly ==
    pc \in {"before", "check", "slope", "search", "ls", "commit", "report",
            "return", "done", "raised"} =>
        /\ heap[m_prev[1]] = heap[m[1]]
        /\ heap[m[1]] = gradAt[1]
        /\ m_prev # m

C17_Witness ==
    /\ pc = "ls"
    /\ trials >= 1
    /\ it >= 1
    /\ heap[m[1]] # x0

Max0(n) == IF n < 0 THEN 0 ELSE n

\* steps solve can still take at most: the iterations left in the budget, and
\* within an iteration the distance to its end
PcRank ==
    CASE pc = "callback" -> 16 + MaxTrials
      [] pc = "after" -> 15 + MaxTrials
      [] pc = "eval" -> 14 + MaxTrials
      [] pc = "before" -> 13 + MaxTrials
      [] pc = "check" -> 12 + MaxTrials
      [] pc = "slope" -> 11 + MaxTrials
      [] pc = "search" -> 10 + MaxTrials
      [] pc = "ls" -> 9 + MaxTrials - trials
      [] pc = "commit" -> 8
      [] pc = "report" -> 3
      [] pc = "return" -> 2
      [] pc = "done" -> 1
      [] pc = "raised" -> 0
      [] pc = "start" -> 17 + MaxTrials

Rank == (Max0(self.maxiter[1]) - it) * (20 + MaxTrials) + PcRank

\* solve can take a step (the commit step has no condition but its position)
CanStep ==
    \/ pc = "commit"
    \/ ENABLED (Solve \/ Evaluate \/ BeforeIteration \/ CheckConvergence
                \/ CheckDirection \/ Search \/ LsPhi \/ LsPhiDphi \/ LsReturn
                \/ LsFail \/ Callback \/ AfterIteration \/ Report \/ Return)

\* C18: with maxiter set solve makes at most max(maxiter, 0) line-search calls
\* and ends, by returning or by raising, whatever tol and gtol are: until it
\* has ended it can take a step, and every step brings the end nearer.
C18_BudgetTerminates ==
    /\ [](self.maxiter # None =>
            /\ lsCalls <= Max0(self.maxiter[1])
            /\ it <= Max0(self.maxiter[1])
            /\ Terminal \/ CanStep)
    /\ [][self.maxiter # None => Rank' < Rank /\ Rank' >= 0]_vars

C18_Witness ==
    /\ self.maxiter = Some(MaxIt)
    /\ self.tol = None /\ self.gtol = None
    /\ pc = "done"
    /\ lsCalls = MaxIt

\* C19: the descent-direction error is raised only at a zero gradient,
\* inner(grad, grad) <= 0, and only with gtol unset or negative: with gtol >= 0
\* the convergence test stops the loop first.
C19_DirectionErrorOnlyAtZeroGradient ==
    (pc = "raised" /\ err = Some("RuntimeError")) =>
        /\ Inner(grad[1], grad[1]) <= 0
        /\ grad[1] = 0
        /\ self.gtol = None \/ self.gtol[1] < 0

C19_Witness ==
    /\ pc = "raised" /\ err = Some("RuntimeError")
    /\ self.gtol = Some(-1)
    /\ it >= 1

\* C20: once j is set it is the objective at the current iterate m; at the
\* start of a pass after the first, j_prev is the objective at the previous
\* iterate; and the objective is evaluated at m itself on the first pass only.
C20_ValueCarriedOver ==
    /\ [](/\ pc \in {"before", "check", "slope", "search", "ls", "commit",
                     "report", "return", "done", "raised"} =>
               j = Some(Obj(heap[m[1]]))
          /\ (pc = "eval" /\ it >= 1) =>
               /\ j = Some(Obj(heap[m[1]]))
               /\ j_prev = Some(Obj(gradAt[1])))
    /\ [][(pc = "eval" /\ objEvals' # objEvals) => it = 0]_vars

C20_Witness ==
    /\ pc = "eval"
    /\ it >= 2
    /\ j # j_prev
    /\ heap[m[1]] # gradAt[1]

====
